---------------------------- MODULE Spec2Model ----------------------------
(***************************************************************************)
(* Lifecycle orchestrator (bootstrap.Start / bootstrap.Shutdown), the      *)
(* process entry point (main) and the Kafka messaging client of tinker-box.*)
(*                                                                         *)
(* The specifications share the variables:                                 *)
(*   Spec            the bootstrap API called in any order                 *)
(*   MainSpec        the control flow of main()                            *)
(*   MsgSpec         kafka.Init, kafka.Close, PublishMessage and the       *)
(*                   broker's delivery reports                             *)
(*   PubSpec         PublishMessage with the handles fixed                 *)
(*   ConSpec         ConsumeMessages with the handles fixed                *)
(*   NoConsumerSpec  PublishMessage and ConsumeMessages without consumer   *)
(*   CfgSpec         global.SetConfig and Start called in any order        *)
(***************************************************************************)
EXTENDS Integers, Sequences, FiniteSets, TLC

\* ------------------------------------------------------------------ bounds
\* Number of bootstrap calls (Start or Shutdown) explored by Spec.
MaxCalls == 3
\* Number of kafka.Init and kafka.Close calls explored by MsgSpec.
MaxKafkaCalls == 2
\* Number of goroutines calling PublishMessage in MsgSpec.
NumPublishers == 2
\* Number of messages written to the consumed partition in one run.
MaxMessages == 2
\* Number of global.SetConfig calls made in one run of CfgSpec.
MaxSetConfig == 2
\* Number of PublishMessage calls made in one run of MsgSpec.
MaxPublish == 2

\* --------------------------------------------------------------- subsystems
Subsystems == {"mysql", "postgres", "redis", "elasticsearch", "kafka"}

\* ------------------------------------------------------------------ errors
\* A Go error is the sequence of its message layers, outermost first; a layer
\* built with %w can be unwrapped to the rest, a layer built with %v or
\* without an operand cannot.  nil is the empty sequence.
Nil == <<>>

\* errors.New / fmt.Errorf without %w: one opaque layer.
Leaf(text) == <<[text |-> text, w |-> FALSE]>>

\* fmt.Errorf("text: %w", e)
Wrapf(text, e) == <<[text |-> text, w |-> TRUE]>> \o e

\* errors.Unwrap
Unwrap(e) == IF e /= Nil /\ e[1].w THEN Tail(e) ELSE Nil

\* The errors reachable from e by repeated Unwrap, e included (errors.Is).
RECURSIVE Chain(_)
Chain(e) == IF e = Nil THEN {} ELSE {e} \cup Chain(Unwrap(e))

\* ------------------------------------------------------------------ handles
\* A package-level handle variable: ptr is "the pointer is non-nil"; conn is
\* the state of the connection object it points to; closes counts the calls
\* of the underlying close method on that object; initOk records whether the
\* Init call that assigned it returned nil.
NilHandle == [ptr |-> FALSE, conn |-> "none", closes |-> 0, initOk |-> FALSE]

NewHandle(conn, ok) == [ptr |-> TRUE, conn |-> conn, closes |-> 0, initOk |-> ok]

\* An event of the call log: package function fn of subsystem sub was entered
\* (h = "") or the underlying close method of handle h was invoked.
Event(sub, fn, h, err) == [sub |-> sub, fn |-> fn, h |-> h, err |-> err]

VARIABLES
    appConfig,      \* global.appConfig: the enabled flag of each subsystem
    configOnce,     \* global.configOnce has run (appConfig is non-nil)
    mysql_db,       \* mysql.db
    postgres_db,    \* postgres.db
    redisx_client,  \* redisx.client
    es_client,      \* elasticsearch.client
    producer,       \* kafka.producer
    consumer,       \* kafka.consumer
    lastCall,       \* the most recent bootstrap call: op, log of events, err
    prevOp,         \* the bootstrap call before it ("none" if there is none)
    calls,          \* number of lifecycle calls made (Start, Shutdown, kafka.*)
    mainpc,         \* position of main() ("lib" when main is not modelled)
    pub,            \* per publisher goroutine: its current PublishMessage call
    chans,          \* per call id: that call's deliveryChan
    inflight,       \* envelopes (message id, channel) the producer queue holds
    nPublish,       \* number of PublishMessage calls made
    crashed,        \* the process panicked or used a destroyed client
    con,            \* per consumer goroutine: its ConsumeMessages call
    assignment,     \* the partition assignment held by kafka.consumer
    plog,           \* number of messages written to partition 0 of the topic
    nSet,           \* number of global.SetConfig calls made
    lastSet,        \* the argument of the latest global.SetConfig call
    firstSet        \* the argument of the first global.SetConfig call


vars == <<appConfig, configOnce, mysql_db, postgres_db, redisx_client,
          es_client, producer, consumer, lastCall, prevOp, calls, mainpc,
          pub, chans, inflight, nPublish, crashed,
          con, assignment, plog, nSet, lastSet, firstSet>>

\* The variables of the messaging client's callers and of the broker.
msgVars == <<pub, chans, inflight, nPublish, crashed>>

\* The variables of the ConsumeMessages callers and of the partition read.
conVars == <<con, assignment, plog>>

\* The record of the global.SetConfig calls.
cfgVars == <<nSet, lastSet, firstSet>>

\* ------------------------------------------------------------------ global
\* SetConfig assigning appConfig on every call.
SetConfig_Overwrites(once, cur, cfg) == [once |-> TRUE, cfg |-> cfg]

\* global.SetConfig: configOnce.Do(func() { appConfig = cfg })
SetConfig(once, cur, cfg) ==
    [once |-> TRUE, cfg |-> IF once THEN cur ELSE cfg]

\* global.GetConfig
GetConfig == appConfig

\* The value standing for the nil *config.Config before SetConfig has run.
NilConfig == [s \in Subsystems |-> FALSE]

\* The package-level handles and the call log as one value, threaded through
\* the functions of one bootstrap call.
Machine(log) ==
    [mysql_db |-> mysql_db, postgres_db |-> postgres_db,
     redisx_client |-> redisx_client, es_client |-> es_client,
     producer |-> producer, consumer |-> consumer, log |-> log]

\* What the external libraries can answer to each Init.
MySQLOutcomes ==
    {"ok", "open_err_nil", "open_err_db", "open_err_pool", "db_err", "ping_err"}
PostgresOutcomes ==
    {"ok", "open_err_nil", "open_err_db", "open_err_pool", "db_err", "ping_err"}
RedisOutcomes == {"ok", "ping_err"}
ESOutcomes == {"ok", "new_err", "ping_err", "status_err"}
KafkaOutcomes == {"ok", "producer_err", "consumer_err"}

\* One answer per subsystem whose Init the configuration lets Start reach
\* (a disabled subsystem is never asked, so its answer is fixed to "ok").
InitOutcomes(cfg) ==
    [mysql : IF cfg["mysql"] THEN MySQLOutcomes ELSE {"ok"},
     postgres : IF cfg["postgres"] THEN PostgresOutcomes ELSE {"ok"},
     redis : IF cfg["redis"] THEN RedisOutcomes ELSE {"ok"},
     elasticsearch : IF cfg["elasticsearch"] THEN ESOutcomes ELSE {"ok"},
     kafka : IF cfg["kafka"] THEN KafkaOutcomes ELSE {"ok"}]

\* Which underlying close methods return an error.
CloseFaults == [mysql : BOOLEAN, postgres : BOOLEAN, redis : BOOLEAN, kafka : BOOLEAN]

\* ------------------------------------------------------------------- mysql
\* mysql.Init: gorm.Open assigns db (on an Open error gorm may hand back nil,
\* a DB without a connection pool, or a DB whose pool is open), db.DB(),
\* pool settings, PingContext.
mysql_Init(st, out) ==
    LET res ==
          CASE out = "open_err_nil" ->
                 [h |-> NilHandle,
                  err |-> Wrapf("failed to connect to MySQL", Leaf(out))]
            [] out = "open_err_db" ->
                 [h |-> NewHandle("none", FALSE),
                  err |-> Wrapf("failed to connect to MySQL", Leaf(out))]
            [] out = "open_err_pool" ->
                 [h |-> NewHandle("open", FALSE),
                  err |-> Wrapf("failed to connect to MySQL", Leaf(out))]
            [] out = "db_err" ->
                 [h |-> NewHandle("none", FALSE),
                  err |-> Wrapf("failed to get underlying sql.DB", Leaf(out))]
            [] out = "ping_err" ->
                 [h |-> NewHandle("open", FALSE),
                  err |-> Wrapf("failed to ping MySQL", Leaf(out))]
            [] OTHER -> [h |-> NewHandle("open", TRUE), err |-> Nil]
    IN  [st |-> [st EXCEPT !.mysql_db = res.h,
                           !.log = Append(@, Event("mysql", "Init", "", res.err))],
         err |-> res.err]

\* mysql.Close: only when db is non-nil: db.DB() (fails on a DB without a
\* pool), then sqlDB.Close(); db itself is left as it is.
mysql_Close(st, fail) ==
    IF st.mysql_db.ptr
    THEN IF st.mysql_db.conn = "none"
         THEN [st |-> [st EXCEPT !.log = Append(@,
                          Event("mysql", "Close", "", Leaf("invalid db")))],
               err |-> Leaf("invalid db")]
         ELSE LET err == IF fail THEN Leaf("close_err") ELSE Nil
              IN  [st |-> [st EXCEPT !.mysql_db.conn = "closed",
                                     !.mysql_db.closes = @ + 1,
                                     !.log = @ \o <<Event("mysql", "HandleClose", "db", err),
                                                    Event("mysql", "Close", "", err)>>],
                   err |-> err]
    ELSE [st |-> [st EXCEPT !.log = Append(@, Event("mysql", "Close", "", Nil))],
          err |-> Nil]

\* ---------------------------------------------------------------- postgres
\* postgres.Init: the same steps as mysql.Init on postgres.db.
postgres_Init(st, out) ==
    LET res ==
          CASE out = "open_err_nil" ->
                 [h |-> NilHandle,
                  err |-> Wrapf("failed to connect to PostgreSQL", Leaf(out))]
            [] out = "open_err_db" ->
                 [h |-> NewHandle("none", FALSE),
                  err |-> Wrapf("failed to connect to PostgreSQL", Leaf(out))]
            [] out = "open_err_pool" ->
                 [h |-> NewHandle("open", FALSE),
                  err |-> Wrapf("failed to connect to PostgreSQL", Leaf(out))]
            [] out = "db_err" ->
                 [h |-> NewHandle("none", FALSE),
                  err |-> Wrapf("failed to get underlying sql.DB", Leaf(out))]
            [] out = "ping_err" ->
                 [h |-> NewHandle("open", FALSE),
                  err |-> Wrapf("failed to ping PostgreSQL", Leaf(out))]
            [] OTHER -> [h |-> NewHandle("open", TRUE), err |-> Nil]
    IN  [st |-> [st EXCEPT !.postgres_db = res.h,
                           !.log = Append(@, Event("postgres", "Init", "", res.err))],
         err |-> res.err]

\* postgres.Close
postgres_Close(st, fail) ==
    IF st.postgres_db.ptr
    THEN IF st.postgres_db.conn = "none"
         THEN [st |-> [st EXCEPT !.log = Append(@,
                          Event("postgres", "Close", "", Leaf("invalid db")))],
               err |-> Leaf("invalid db")]
         ELSE LET err == IF fail THEN Leaf("close_err") ELSE Nil
              IN  [st |-> [st EXCEPT !.postgres_db.conn = "closed",
                                     !.postgres_db.closes = @ + 1,
                                     !.log = @ \o <<Event("postgres", "HandleClose", "db", err),
                                                    Event("postgres", "Close", "", err)>>],
                   err |-> err]
    ELSE [st |-> [st EXCEPT !.log = Append(@, Event("postgres", "Close", "", Nil))],
          err |-> Nil]

\* ------------------------------------------------------------------ redisx
\* redisx.Init: redis.NewClient always yields a client; then Ping.
redisx_Init(st, out) ==
    LET err == IF out = "ok" THEN Nil
               ELSE Wrapf("failed to connect to Redis", Leaf(out))
    IN  [st |-> [st EXCEPT !.redisx_client = NewHandle("open", out = "ok"),
                           !.log = Append(@, Event("redis", "Init", "", err))],
         err |-> err]

\* redisx.Close: client.Close() when client is non-nil.
redisx_Close(st, fail) ==
    IF st.redisx_client.ptr
    THEN LET err == IF fail THEN Leaf("close_err") ELSE Nil
         IN  [st |-> [st EXCEPT !.redisx_client.conn = "closed",
                                !.redisx_client.closes = @ + 1,
                                !.log = @ \o <<Event("redis", "HandleClose", "client", err),
                                               Event("redis", "Close", "", err)>>],
              err |-> err]
    ELSE [st |-> [st EXCEPT !.log = Append(@, Event("redis", "Close", "", Nil))],
          err |-> Nil]

\* ----------------------------------------------------------- elasticsearch
\* elasticsearch.Init: NewClient assigns client, Ping, res.IsError().
elasticsearch_Init(st, out) ==
    LET res ==
          CASE out = "new_err" ->
                 [h |-> NilHandle,
                  err |-> Wrapf("failed to create Elasticsearch client", Leaf(out))]
            [] out = "ping_err" ->
                 [h |-> NewHandle("open", FALSE),
                  err |-> Wrapf("failed to ping Elasticsearch", Leaf(out))]
            [] out = "status_err" ->
                 [h |-> NewHandle("open", FALSE),
                  err |-> Leaf("Elasticsearch ping failed with status")]
            [] OTHER -> [h |-> NewHandle("open", TRUE), err |-> Nil]
    IN  [st |-> [st EXCEPT !.es_client = res.h,
                           !.log = Append(@, Event("elasticsearch", "Init", "", res.err))],
         err |-> res.err]

\* elasticsearch.Close: nothing to close, returns nil.
elasticsearch_Close(st) ==
    [st |-> [st EXCEPT !.log = Append(@, Event("elasticsearch", "Close", "", Nil))],
     err |-> Nil]

\* ------------------------------------------------------------------- kafka
\* initProducer: producer, err = ckafka.NewProducer(conf)
initProducer(st, out) ==
    IF out = "producer_err"
    THEN [st |-> [st EXCEPT !.producer = NilHandle],
          err |-> Wrapf("failed to create Kafka producer", Leaf(out))]
    ELSE [st |-> [st EXCEPT !.producer = NewHandle("open", FALSE)], err |-> Nil]

\* initConsumer: consumer, err = ckafka.NewConsumer(conf)
initConsumer(st, out) ==
    IF out = "consumer_err"
    THEN [st |-> [st EXCEPT !.consumer = NilHandle],
          err |-> Wrapf("failed to create Kafka consumer", Leaf(out))]
    ELSE [st |-> [st EXCEPT !.consumer = NewHandle("open", FALSE)], err |-> Nil]

\* kafka.Init: initProducer, then initConsumer; the first error is returned.
kafka_Init(st, out) ==
    LET p == initProducer(st, out)
        c == initConsumer(p.st, out)
        res ==
          IF p.err /= Nil
          THEN [st |-> p.st,
                err |-> Wrapf("failed to initialize Kafka producer", p.err)]
          ELSE IF c.err /= Nil
          THEN [st |-> c.st,
                err |-> Wrapf("failed to initialize Kafka consumer", c.err)]
          ELSE [st |-> [c.st EXCEPT !.producer.initOk = TRUE,
                                    !.consumer.initOk = TRUE],
                err |-> Nil]
    IN  [st |-> [res.st EXCEPT !.log = Append(@, Event("kafka", "Init", "", res.err))],
         err |-> res.err]

\* kafka.Close: producer.Close() (no result) when producer is non-nil, then
\* consumer.Close() when consumer is non-nil; neither variable is reset.
kafka_Close(st, fail) ==
    LET err0 == Nil
        s1 == IF st.producer.ptr
              THEN [st EXCEPT !.producer.conn = "closed",
                              !.producer.closes = @ + 1,
                              !.log = Append(@, Event("kafka", "HandleClose", "producer", Nil))]
              ELSE st
        closeErr == IF fail THEN Leaf("close_err") ELSE Nil
        s2 == IF s1.consumer.ptr
              THEN [s1 EXCEPT !.consumer.conn = "closed",
                              !.consumer.closes = @ + 1,
                              !.log = Append(@, Event("kafka", "HandleClose", "consumer", closeErr))]
              ELSE s1
        err == IF s1.consumer.ptr /\ closeErr /= Nil
               THEN IF err0 /= Nil
                    THEN Wrapf("failed to close consumer, previous error", closeErr)
                    ELSE Wrapf("failed to close consumer", closeErr)
               ELSE err0
    IN  [st |-> [s2 EXCEPT !.log = Append(@, Event("kafka", "Close", "", err))],
         err |-> err]

\* --------------------------------------------------------------- bootstrap
\* Mutant of initDatabases: a MySQL failure does not return; PostgreSQL is
\* initialised all the same and the MySQL error is returned afterwards.
initDatabases_NoReturn(st, cfg, outs) ==
    LET m == IF cfg["mysql"] THEN mysql_Init(st, outs.mysql)
             ELSE [st |-> st, err |-> Nil]
        p == IF cfg["postgres"] THEN postgres_Init(m.st, outs.postgres)
             ELSE [st |-> m.st, err |-> Nil]
    IN  IF m.err /= Nil
        THEN [st |-> p.st, err |-> Wrapf("failed to initialize MySQL", m.err)]
        ELSE IF p.err /= Nil
        THEN [st |-> p.st, err |-> Wrapf("failed to initialize PostgreSQL", p.err)]
        ELSE [st |-> p.st, err |-> Nil]

\* initDatabases: MySQL, then PostgreSQL, each only when enabled.
initDatabases(st, cfg, outs) ==
    LET m == IF cfg["mysql"] THEN mysql_Init(st, outs.mysql)
             ELSE [st |-> st, err |-> Nil]
    IN  IF m.err /= Nil
        THEN [st |-> m.st, err |-> Wrapf("failed to initialize MySQL", m.err)]
        ELSE LET p == IF cfg["postgres"] THEN postgres_Init(m.st, outs.postgres)
                      ELSE [st |-> m.st, err |-> Nil]
             IN  IF p.err /= Nil
                 THEN [st |-> p.st,
                       err |-> Wrapf("failed to initialize PostgreSQL", p.err)]
                 ELSE [st |-> p.st, err |-> Nil]

\* Mutant of initCache: the Enabled flag is not consulted.
initCache_IgnoresEnabled(st, cfg, outs) ==
    LET r == redisx_Init(st, outs.redis)
    IN  IF r.err /= Nil
        THEN [st |-> r.st, err |-> Wrapf("failed to initialize Redis", r.err)]
        ELSE [st |-> r.st, err |-> Nil]

\* initCache
initCache(st, cfg, outs) ==
    LET r == IF cfg["redis"] THEN redisx_Init(st, outs.redis)
             ELSE [st |-> st, err |-> Nil]
    IN  IF r.err /= Nil
        THEN [st |-> r.st, err |-> Wrapf("failed to initialize Redis", r.err)]
        ELSE [st |-> r.st, err |-> Nil]

\* Mutant of initElasticsearch: the cause is formatted with %v, not %w.
initElasticsearch_NoWrap(st, cfg, outs) ==
    LET r == IF cfg["elasticsearch"] THEN elasticsearch_Init(st, outs.elasticsearch)
             ELSE [st |-> st, err |-> Nil]
    IN  IF r.err /= Nil
        THEN [st |-> r.st, err |-> Leaf("failed to initialize Elasticsearch")]
        ELSE [st |-> r.st, err |-> Nil]

\* initElasticsearch
initElasticsearch(st, cfg, outs) ==
    LET r == IF cfg["elasticsearch"] THEN elasticsearch_Init(st, outs.elasticsearch)
             ELSE [st |-> st, err |-> Nil]
    IN  IF r.err /= Nil
        THEN [st |-> r.st,
              err |-> Wrapf("failed to initialize Elasticsearch", r.err)]
        ELSE [st |-> r.st, err |-> Nil]

\* initKafka
initKafka(st, cfg, outs) ==
    LET r == IF cfg["kafka"] THEN kafka_Init(st, outs.kafka)
             ELSE [st |-> st, err |-> Nil]
    IN  IF r.err /= Nil
        THEN [st |-> r.st, err |-> Wrapf("failed to initialize Kafka", r.err)]
        ELSE [st |-> r.st, err |-> Nil]

\* bootstrap.Start: databases, cache, Elasticsearch, Kafka; returns at the
\* first error, wrapped, and closes nothing.
Start(st, cfg, outs) ==
    LET d == initDatabases(st, cfg, outs)
    IN  IF d.err /= Nil
        THEN [st |-> d.st, err |-> Wrapf("failed to initialize databases", d.err)]
        ELSE LET c == initCache(d.st, cfg, outs)
             IN  IF c.err /= Nil
                 THEN [st |-> c.st,
                       err |-> Wrapf("failed to initialize cache", c.err)]
                 ELSE LET e == initElasticsearch(c.st, cfg, outs)
                      IN  IF e.err /= Nil
                          THEN [st |-> e.st,
                                err |-> Wrapf("failed to initialize Elasticsearch", e.err)]
                          ELSE LET k == initKafka(e.st, cfg, outs)
                               IN  IF k.err /= Nil
                                   THEN [st |-> k.st,
                                         err |-> Wrapf("failed to initialize Kafka", k.err)]
                                   ELSE [st |-> k.st, err |-> Nil]

\* Mutant of Shutdown: the closes run in the reverse order.
Shutdown_Reversed(st, faults) ==
    LET k == kafka_Close(st, faults.kafka)
        e == elasticsearch_Close(k.st)
        r == redisx_Close(e.st, faults.redis)
        p == postgres_Close(r.st, faults.postgres)
        m == mysql_Close(p.st, faults.mysql)
    IN  [st |-> m.st, err |-> Nil]

\* Mutant of Shutdown: the first close error is returned at once.
Shutdown_FailFast(st, faults) ==
    LET m == mysql_Close(st, faults.mysql)
        p == postgres_Close(m.st, faults.postgres)
        r == redisx_Close(p.st, faults.redis)
        e == elasticsearch_Close(r.st)
        k == kafka_Close(e.st, faults.kafka)
    IN  IF m.err /= Nil THEN m
        ELSE IF p.err /= Nil THEN p
        ELSE IF r.err /= Nil THEN r
        ELSE IF e.err /= Nil THEN e
        ELSE k

\* bootstrap.Shutdown: mysql.Close, postgres.Close, redisx.Close,
\* elasticsearch.Close, kafka.Close, in that order; each error is logged and
\* dropped; the result is always nil.
Shutdown(st, faults) ==
    LET m == mysql_Close(st, faults.mysql)
        p == postgres_Close(m.st, faults.postgres)
        r == redisx_Close(p.st, faults.redis)
        e == elasticsearch_Close(r.st)
        k == kafka_Close(e.st, faults.kafka)
    IN  [st |-> k.st, err |-> Nil]

\* ----------------------------------------------------------------- actions
\* The handles of a machine value written back to the package variables.
Store(st) ==
    /\ mysql_db' = st.mysql_db
    /\ postgres_db' = st.postgres_db
    /\ redisx_client' = st.redisx_client
    /\ es_client' = st.es_client
    /\ producer' = st.producer
    /\ consumer' = st.consumer

\* A caller invokes bootstrap.Start(ctx).
CallStart ==
    /\ mainpc = "lib"
    /\ calls < MaxCalls
    /\ \E outs \in InitOutcomes(appConfig) :
          LET r == Start(Machine(<<>>), GetConfig, outs)
          IN  /\ Store(r.st)
              /\ lastCall' = [op |-> "Start", log |-> r.st.log, err |-> r.err]
    /\ prevOp' = lastCall.op
    /\ calls' = calls + 1
    /\ UNCHANGED <<appConfig, configOnce, mainpc, msgVars,
                   conVars, cfgVars>>

\* A caller invokes bootstrap.Shutdown(ctx).
CallShutdown ==
    /\ mainpc = "lib"
    /\ calls < MaxCalls
    /\ \E faults \in CloseFaults :
          LET r == Shutdown(Machine(<<>>), faults)
          IN  /\ Store(r.st)
              /\ lastCall' = [op |-> "Shutdown", log |-> r.st.log, err |-> r.err]
    /\ prevOp' = lastCall.op
    /\ calls' = calls + 1
    /\ UNCHANGED <<appConfig, configOnce, mainpc, msgVars,
                   conVars, cfgVars>>

\* The configuration snapshots: every choice of enabled flags.
Configs == [Subsystems -> BOOLEAN]

NoCall == [op |-> "none", log |-> <<>>, err |-> Nil]

InitHandles ==
    /\ mysql_db = NilHandle
    /\ postgres_db = NilHandle
    /\ redisx_client = NilHandle
    /\ es_client = NilHandle
    /\ producer = NilHandle
    /\ consumer = NilHandle

\* ---------------------------------------------------------------- messaging
Publishers == 1..NumPublishers
CallIds == 1..MaxPublish

\* ctx.Err() of a cancelled context.
Canceled == Leaf("context canceled")

\* The error of PublishMessage when producer is nil.
ProducerNotInitialized == Leaf("Kafka producer not initialized")

\* No delivery event taken from the channel, nothing written by Infof, no
\* envelope handed to the producer queue.
NoEvent == [msg |-> 0, err |-> Nil, partition |-> -1, offset |-> -1]

NothingLogged == [partition |-> -1, offset |-> -1]

NoEnvelope == [msg |-> 0, chan |-> 0]

IdleCall ==
    [pc |-> "idle", id |-> 0, chan |-> 0, ctx |-> "live",
     entryCancelled |-> FALSE, nilAtEntry |-> FALSE, submit |-> "none",
     produced |-> FALSE,
     branch |-> "none", got |-> NoEvent, logged |-> NothingLogged, ret |-> Nil]

NoChan == [state |-> "none", buf |-> <<>>]

InitMessaging ==
    /\ pub = [p \in Publishers |-> IdleCall]
    /\ chans = [i \in CallIds |-> NoChan]
    /\ inflight = {}
    /\ nPublish = 0
    /\ crashed = FALSE

\* No ConsumeMessages call made, no partition assigned to the consumer, no
\* message in the partition.
NoAssignment == [on |-> FALSE, owner |-> 0, pos |-> -1]

\* The goroutines that call ConsumeMessages, one call each.
Consumers == {1, 2}

IdleConsume ==
    [pc |-> "idle", ctx |-> "live", nilAtEntry |-> FALSE,
     assignCalled |-> FALSE, entered |-> FALSE, startLen |-> -1,
     lenAtCancel |-> -1, handled |-> <<>>,
     errs |-> "none", pollsAfterCancel |-> 0,
     unassigns |-> 0, unassign |-> "none", leftAssigned |-> FALSE, ret |-> Nil]

InitConsuming ==
    /\ con = [c \in Consumers |-> IdleConsume]
    /\ assignment = NoAssignment
    /\ plog = 0

\* Spec starts after main has stored the configuration snapshot.
Init ==
    /\ appConfig \in Configs
    /\ configOnce = TRUE
    /\ InitHandles
    /\ lastCall = NoCall
    /\ prevOp = "none"
    /\ calls = 0
    /\ mainpc = "lib"
    /\ InitMessaging
    /\ InitConsuming
    /\ nSet = 1
    /\ lastSet = appConfig
    /\ firstSet = appConfig

Next == CallStart \/ CallShutdown

Spec == Init /\ [][Next]_vars

\* -------------------------------------------------------------------- main
\* main: config.Load(), a failure is logged with Fatalf (the process exits);
\* otherwise global.SetConfig(cfg).
MainLoadConfig ==
    /\ mainpc = "load"
    /\ \E ok \in BOOLEAN, cfg \in Configs :
          IF ok
          THEN LET r == SetConfig(configOnce, appConfig, cfg)
               IN  /\ appConfig' = r.cfg
                   /\ configOnce' = r.once
                   /\ nSet' = nSet + 1
                   /\ lastSet' = cfg
                   /\ firstSet' = IF nSet = 0 THEN cfg ELSE firstSet
                   /\ mainpc' = "logger"
          ELSE /\ mainpc' = "fatal"
               /\ UNCHANGED <<appConfig, configOnce, cfgVars>>
    /\ UNCHANGED <<mysql_db, postgres_db, redisx_client, es_client, producer,
                   consumer, lastCall, prevOp, calls, msgVars, conVars>>

\* main: logger.Init(), a failure is logged with Fatalf.
MainLoggerInit ==
    /\ mainpc = "logger"
    /\ \E ok \in BOOLEAN : mainpc' = IF ok THEN "start" ELSE "fatal"
    /\ UNCHANGED <<appConfig, configOnce, mysql_db, postgres_db, redisx_client,
                   es_client, producer, consumer, lastCall, prevOp, calls, msgVars,
                   conVars, cfgVars>>

\* main logging a Start error and going on to wait for the signal.
MainStart_ContinuesOnError ==
    /\ mainpc = "start"
    /\ \E outs \in InitOutcomes(appConfig) :
          LET r == Start(Machine(<<>>), GetConfig, outs)
          IN  /\ Store(r.st)
              /\ lastCall' = [op |-> "Start", log |-> r.st.log, err |-> r.err]
              /\ mainpc' = "wait"
    /\ prevOp' = lastCall.op
    /\ calls' = calls + 1
    /\ UNCHANGED <<appConfig, configOnce, msgVars,
                   conVars, cfgVars>>

\* main: bootstrap.Start(ctx); on an error Fatalf exits the process at once
\* (os.Exit: no deferred call runs, Shutdown is not called).
MainStart ==
    /\ mainpc = "start"
    /\ \E outs \in InitOutcomes(appConfig) :
          LET r == Start(Machine(<<>>), GetConfig, outs)
          IN  /\ Store(r.st)
              /\ lastCall' = [op |-> "Start", log |-> r.st.log, err |-> r.err]
              /\ mainpc' = IF r.err /= Nil THEN "fatal" ELSE "wait"
    /\ prevOp' = lastCall.op
    /\ calls' = calls + 1
    /\ UNCHANGED <<appConfig, configOnce, msgVars,
                   conVars, cfgVars>>

\* main: <-quit, a SIGINT or SIGTERM arrives.
MainSignal ==
    /\ mainpc = "wait"
    /\ mainpc' = "shutdown"
    /\ UNCHANGED <<appConfig, configOnce, mysql_db, postgres_db, redisx_client,
                   es_client, producer, consumer, lastCall, prevOp, calls, msgVars,
                   conVars, cfgVars>>

\* main: bootstrap.Shutdown(ctx); an error is logged with Fatalf, otherwise
\* main returns.
MainShutdown ==
    /\ mainpc = "shutdown"
    /\ \E faults \in CloseFaults :
          LET r == Shutdown(Machine(<<>>), faults)
          IN  /\ Store(r.st)
              /\ lastCall' = [op |-> "Shutdown", log |-> r.st.log, err |-> r.err]
              /\ mainpc' = IF r.err /= Nil THEN "fatal" ELSE "exited"
    /\ prevOp' = lastCall.op
    /\ calls' = calls + 1
    /\ UNCHANGED <<appConfig, configOnce, msgVars,
                   conVars, cfgVars>>

\* main() from its first statement: no configuration stored yet.
MainInit ==
    /\ appConfig = NilConfig
    /\ configOnce = FALSE
    /\ InitHandles
    /\ lastCall = NoCall
    /\ prevOp = "none"
    /\ calls = 0
    /\ mainpc = "load"
    /\ InitMessaging
    /\ InitConsuming
    /\ nSet = 0
    /\ lastSet = NilConfig
    /\ firstSet = NilConfig

MainNext ==
    MainLoadConfig \/ MainLoggerInit \/ MainStart \/ MainSignal \/ MainShutdown

MainSpec == MainInit /\ [][MainNext]_vars

\* ------------------------------------------------ configuration snapshot
\* The configurations handed to SetConfig in CfgSpec: those in which only
\* Redis and Kafka can be enabled.
SetConfigInputs ==
    {cfg \in Configs :
        ~cfg["mysql"] /\ ~cfg["postgres"] /\ ~cfg["elasticsearch"]}

\* A caller invokes global.SetConfig(cfg).
CallSetConfig ==
    /\ mainpc = "lib"
    /\ ~crashed
    /\ nSet < MaxSetConfig
    /\ \E cfg \in SetConfigInputs :
          LET r == SetConfig(configOnce, appConfig, cfg)
          IN  /\ appConfig' = r.cfg
              /\ configOnce' = r.once
              /\ lastSet' = cfg
              /\ firstSet' = IF nSet = 0 THEN cfg ELSE firstSet
    /\ nSet' = nSet + 1
    /\ UNCHANGED <<mysql_db, postgres_db, redisx_client, es_client, producer,
                   consumer, lastCall, prevOp, calls, mainpc, msgVars, conVars>>

\* bootstrap.Start called after SetConfig: every init function reads the
\* snapshot with global.GetConfig().
ConfiguredStart ==
    /\ configOnce
    /\ ~crashed
    /\ CallStart

\* bootstrap.Start called before any SetConfig: GetConfig returns nil and
\* initDatabases dereferences it.
UnconfiguredStart ==
    /\ mainpc = "lib"
    /\ ~configOnce
    /\ ~crashed
    /\ crashed' = TRUE
    /\ UNCHANGED <<appConfig, configOnce, mysql_db, postgres_db, redisx_client,
                   es_client, producer, consumer, lastCall, prevOp, calls, mainpc,
                   pub, chans, inflight, nPublish, conVars, cfgVars>>

\* The process from its start, SetConfig and Start called in any order.
CfgInit ==
    /\ appConfig = NilConfig
    /\ configOnce = FALSE
    /\ InitHandles
    /\ lastCall = NoCall
    /\ prevOp = "none"
    /\ calls = 0
    /\ mainpc = "lib"
    /\ InitMessaging
    /\ InitConsuming
    /\ nSet = 0
    /\ lastSet = NilConfig
    /\ firstSet = NilConfig

CfgNext == CallSetConfig \/ ConfiguredStart \/ UnconfiguredStart

CfgSpec == CfgInit /\ [][CfgNext]_vars

\* --------------------------------------------------- messaging: lifecycle
\* A caller invokes kafka.Init(ctx, cfg).
KafkaInit ==
    /\ mainpc = "lib"
    /\ ~crashed
    /\ calls < MaxKafkaCalls
    /\ \E out \in KafkaOutcomes : Store(kafka_Init(Machine(<<>>), out).st)
    /\ calls' = calls + 1
    /\ UNCHANGED <<appConfig, configOnce, lastCall, prevOp, mainpc, msgVars,
                   conVars, cfgVars>>

\* A caller invokes kafka.Close().
KafkaClose ==
    /\ mainpc = "lib"
    /\ ~crashed
    /\ calls < MaxKafkaCalls
    /\ \E fail \in BOOLEAN : Store(kafka_Close(Machine(<<>>), fail).st)
    /\ calls' = calls + 1
    /\ UNCHANGED <<appConfig, configOnce, lastCall, prevOp, mainpc, msgVars,
                   conVars, cfgVars>>

\* ----------------------------------------------------- messaging: Publish
\* What producer.Produce can answer: the queue takes the envelope or rejects
\* it; on a producer that was closed the client library either reports an
\* error or runs on the destroyed handle.
ProduceOutcomes(prod) ==
    IF prod.conn = "closed" THEN {"closed_err", "use_after_close"}
    ELSE {"ok", "queue_full"}

\* PublishMessage with every call sharing the delivery channel of the first
\* call instead of making its own.
PublishSubmit_SharedChan(prod, id, ctx, out) ==
    LET call == [pc |-> "done", id |-> id, chan |-> 1, ctx |-> ctx,
                 entryCancelled |-> (ctx = "cancelled"),
                 nilAtEntry |-> ~prod.ptr, submit |-> "none",
                 produced |-> FALSE, branch |-> "none", got |-> NoEvent,
                 logged |-> NothingLogged, ret |-> Nil]
    IN  IF ~prod.ptr
        THEN [call |-> [call EXCEPT !.chan = 0, !.ret = ProducerNotInitialized],
              chan |-> NoChan, env |-> NoEnvelope, crash |-> FALSE]
        ELSE IF out = "use_after_close"
        THEN [call |-> [call EXCEPT !.pc = "dead", !.submit = out,
                              !.produced = TRUE],
              chan |-> [state |-> "open", buf |-> <<>>],
              env |-> NoEnvelope, crash |-> TRUE]
        ELSE IF out /= "ok"
        THEN [call |-> [call EXCEPT !.submit = out, !.produced = TRUE,
                          !.ret = Wrapf("failed to produce message to topic", Leaf(out))],
              chan |-> [state |-> "closed", buf |-> <<>>],
              env |-> NoEnvelope, crash |-> FALSE]
        ELSE [call |-> [call EXCEPT !.pc = "select", !.submit = out,
                              !.produced = TRUE],
              chan |-> [state |-> "open", buf |-> <<>>],
              env |-> [msg |-> id, chan |-> 1], crash |-> FALSE]

\* PublishMessage without the nil check on producer.
PublishSubmit_NoNilCheck(prod, id, ctx, out) ==
    LET call == [pc |-> "done", id |-> id, chan |-> id, ctx |-> ctx,
                 entryCancelled |-> (ctx = "cancelled"),
                 nilAtEntry |-> ~prod.ptr, submit |-> "none",
                 produced |-> FALSE, branch |-> "none", got |-> NoEvent,
                 logged |-> NothingLogged, ret |-> Nil]
    IN  IF out = "use_after_close"
        THEN [call |-> [call EXCEPT !.pc = "dead", !.submit = out,
                              !.produced = TRUE],
              chan |-> [state |-> "open", buf |-> <<>>],
              env |-> NoEnvelope, crash |-> TRUE]
        ELSE IF out /= "ok"
        THEN [call |-> [call EXCEPT !.submit = out, !.produced = TRUE,
                          !.ret = Wrapf("failed to produce message to topic", Leaf(out))],
              chan |-> [state |-> "closed", buf |-> <<>>],
              env |-> NoEnvelope, crash |-> FALSE]
        ELSE [call |-> [call EXCEPT !.pc = "select", !.submit = out,
                              !.produced = TRUE],
              chan |-> [state |-> "open", buf |-> <<>>],
              env |-> [msg |-> id, chan |-> id], crash |-> FALSE]

\* PublishMessage going on to its select although Produce returned an error.
PublishSubmit_WaitsAfterReject(prod, id, ctx, out) ==
    LET call == [pc |-> "done", id |-> id, chan |-> id, ctx |-> ctx,
                 entryCancelled |-> (ctx = "cancelled"),
                 nilAtEntry |-> ~prod.ptr, submit |-> "none",
                 produced |-> FALSE, branch |-> "none", got |-> NoEvent,
                 logged |-> NothingLogged, ret |-> Nil]
    IN  IF ~prod.ptr
        THEN [call |-> [call EXCEPT !.chan = 0, !.ret = ProducerNotInitialized],
              chan |-> NoChan, env |-> NoEnvelope, crash |-> FALSE]
        ELSE IF out = "use_after_close"
        THEN [call |-> [call EXCEPT !.pc = "dead", !.submit = out,
                              !.produced = TRUE],
              chan |-> [state |-> "open", buf |-> <<>>],
              env |-> NoEnvelope, crash |-> TRUE]
        ELSE IF out /= "ok"
        THEN [call |-> [call EXCEPT !.pc = "select", !.submit = out,
                          !.produced = TRUE],
              chan |-> [state |-> "open", buf |-> <<>>],
              env |-> NoEnvelope, crash |-> FALSE]
        ELSE [call |-> [call EXCEPT !.pc = "select", !.submit = out,
                              !.produced = TRUE],
              chan |-> [state |-> "open", buf |-> <<>>],
              env |-> [msg |-> id, chan |-> id], crash |-> FALSE]

\* PublishMessage up to its select: the nil check on producer, make(chan, 1)
\* with the deferred close, producer.Produce(msg, deliveryChan).  The context
\* is not consulted before Produce.  Gives the caller's call record, the
\* channel this call made, the envelope the queue took (message id and the
\* channel passed with it) and whether the process died.
PublishSubmit(prod, id, ctx, out) ==
    LET call == [pc |-> "done", id |-> id, chan |-> id, ctx |-> ctx,
                 entryCancelled |-> (ctx = "cancelled"),
                 nilAtEntry |-> ~prod.ptr, submit |-> "none",
                 produced |-> FALSE, branch |-> "none", got |-> NoEvent,
                 logged |-> NothingLogged, ret |-> Nil]
    IN  IF ~prod.ptr
        THEN [call |-> [call EXCEPT !.chan = 0, !.ret = ProducerNotInitialized],
              chan |-> NoChan, env |-> NoEnvelope, crash |-> FALSE]
        ELSE IF out = "use_after_close"
        THEN [call |-> [call EXCEPT !.pc = "dead", !.submit = out,
                              !.produced = TRUE],
              chan |-> [state |-> "open", buf |-> <<>>],
              env |-> NoEnvelope, crash |-> TRUE]
        ELSE IF out /= "ok"
        THEN [call |-> [call EXCEPT !.submit = out, !.produced = TRUE,
                          !.ret = Wrapf("failed to produce message to topic", Leaf(out))],
              chan |-> [state |-> "closed", buf |-> <<>>],
              env |-> NoEnvelope, crash |-> FALSE]
        ELSE [call |-> [call EXCEPT !.pc = "select", !.submit = out,
                              !.produced = TRUE],
              chan |-> [state |-> "open", buf |-> <<>>],
              env |-> [msg |-> id, chan |-> id], crash |-> FALSE]

\* Goroutine p calls PublishMessage(ctx, topic, key, message) with a context
\* that is live or already cancelled.
PublishEnter(p) ==
    /\ mainpc = "lib"
    /\ ~crashed
    /\ pub[p].pc \in {"idle", "done"}
    /\ nPublish < MaxPublish
    /\ \E ctx \in {"live", "cancelled"}, out \in ProduceOutcomes(producer) :
          LET id == nPublish + 1
              r == PublishSubmit(producer, id, ctx, out)
          IN  /\ pub' = [pub EXCEPT ![p] = r.call]
              /\ chans' = IF r.call.chan = id
                          THEN [chans EXCEPT ![id] = r.chan]
                          ELSE chans
              /\ inflight' = IF r.env /= NoEnvelope
                             THEN inflight \cup {r.env} ELSE inflight
              /\ crashed' = r.crash
    /\ nPublish' = nPublish + 1
    /\ UNCHANGED <<appConfig, configOnce, mysql_db, postgres_db, redisx_client,
                   es_client, producer, consumer, lastCall, prevOp, calls, mainpc,
                   conVars, cfgVars>>

\* PublishMessage's select without the ctx.Done() case.
SelectReady_NoCtxCase(call, chan) ==
    IF chan.buf /= <<>> THEN {"delivery"} ELSE {}

\* The cases of PublishMessage's select that can proceed.
SelectReady(call, chan) ==
    (IF chan.buf /= <<>> THEN {"delivery"} ELSE {})
        \cup (IF call.ctx = "cancelled" THEN {"ctx"} ELSE {})

\* PublishMessage returning nil whatever the delivery event says.
SelectResult_IgnoresDeliveryError(branch, chan) ==
    IF branch = "ctx" THEN Canceled ELSE Nil

\* The value PublishMessage returns from the select case taken.
SelectResult(branch, chan) ==
    IF branch = "ctx" THEN Canceled
    ELSE IF chan.buf[1].err /= Nil
    THEN Wrapf("delivery failed", chan.buf[1].err)
    ELSE Nil

\* What the delivery case writes with logger.Infof: the partition and offset
\* of the event, when the event carries no error.
SelectLogged(branch, chan) ==
    IF branch = "delivery" /\ chan.buf[1].err = Nil
    THEN [partition |-> chan.buf[1].partition, offset |-> chan.buf[1].offset]
    ELSE NothingLogged

\* The values PublishMessage hands back to its caller: its signature has the
\* single result `error`.
PublishReturn(call) == <<call.ret>>

\* PublishMessage's select: a ready case is taken (any one, when both are
\* ready), the function returns and the deferred close(deliveryChan) runs.
PublishSelect(p) ==
    /\ mainpc = "lib"
    /\ ~crashed
    /\ pub[p].pc = "select"
    /\ \E branch \in SelectReady(pub[p], chans[pub[p].chan]) :
          /\ pub' = [pub EXCEPT
                ![p].pc = "done",
                ![p].branch = branch,
                ![p].got = IF branch = "delivery"
                           THEN chans[pub[p].chan].buf[1] ELSE NoEvent,
                ![p].logged = SelectLogged(branch, chans[pub[p].chan]),
                ![p].ret = SelectResult(branch, chans[pub[p].chan])]
          /\ chans' = [chans EXCEPT ![pub[p].chan] =
                          [state |-> "closed",
                           buf |-> IF branch = "delivery" THEN Tail(@.buf)
                                   ELSE @.buf]]
    /\ UNCHANGED <<appConfig, configOnce, mysql_db, postgres_db, redisx_client,
                   es_client, producer, consumer, lastCall, prevOp, calls, mainpc,
                   inflight, nPublish, crashed,
                   conVars, cfgVars>>

\* The caller's context is cancelled (or its deadline passes) while
\* PublishMessage waits.
CancelCtx(p) ==
    /\ mainpc = "lib"
    /\ ~crashed
    /\ pub[p].pc = "select"
    /\ pub[p].ctx = "live"
    /\ pub' = [pub EXCEPT ![p].ctx = "cancelled"]
    /\ UNCHANGED <<appConfig, configOnce, mysql_db, postgres_db, redisx_client,
                   es_client, producer, consumer, lastCall, prevOp, calls, mainpc,
                   chans, inflight, nPublish, crashed,
                   conVars, cfgVars>>

\* The delivery reports the broker can give for the envelope of message id:
\* the envelope itself comes back, carrying either the partition and offset
\* it was written at or the error.
DeliveryReports(id) ==
    {[msg |-> id, err |-> Nil, partition |-> 0, offset |-> id],
     [msg |-> id, err |-> Leaf("unknown topic"), partition |-> -1, offset |-> -1]}

\* The client library reports the delivery of an envelope on the channel that
\* was passed with it; a send on a channel already closed panics (the channel
\* is marked "sent_on_closed"), a send on a channel whose one slot is taken
\* waits.
Deliver(env) ==
    /\ mainpc = "lib"
    /\ ~crashed
    /\ env \in inflight
    /\ chans[env.chan].state = "closed" \/ chans[env.chan].buf = <<>>
    /\ \E ev \in DeliveryReports(env.msg) :
          IF chans[env.chan].state = "closed"
          THEN /\ crashed' = TRUE
               /\ chans' = [chans EXCEPT ![env.chan].state = "sent_on_closed"]
          ELSE /\ chans' = [chans EXCEPT ![env.chan].buf = Append(@, ev)]
               /\ UNCHANGED crashed
    /\ inflight' = inflight \ {env}
    /\ UNCHANGED <<appConfig, configOnce, mysql_db, postgres_db, redisx_client,
                   es_client, producer, consumer, lastCall, prevOp, calls, mainpc,
                   pub, nPublish,
                   conVars, cfgVars>>

\* The messaging client on its own: only Kafka is configured.
MsgInit ==
    /\ appConfig = [s \in Subsystems |-> s = "kafka"]
    /\ configOnce = TRUE
    /\ InitHandles
    /\ lastCall = NoCall
    /\ prevOp = "none"
    /\ calls = 0
    /\ mainpc = "lib"
    /\ InitMessaging
    /\ InitConsuming
    /\ nSet = 1
    /\ lastSet = appConfig
    /\ firstSet = appConfig

MsgNext ==
    \/ KafkaInit
    \/ KafkaClose
    \/ \E p \in Publishers : PublishEnter(p)
    \/ \E p \in Publishers : PublishSelect(p)
    \/ \E p \in Publishers : CancelCtx(p)
    \/ \E env \in inflight : Deliver(env)

MsgSpec == MsgInit /\ [][MsgNext]_vars

\* ----------------------------------------------------- messaging: Consume
\* The error of ConsumeMessages when consumer is nil.
ConsumerNotInitialized == Leaf("Kafka consumer not initialized")

\* What consumer.Assign can answer; on a consumer that was closed the client
\* library either reports an error or runs on the destroyed handle.
AssignOutcomes(cons) ==
    IF cons.conn = "closed" THEN {"closed_err", "use_after_close"}
    ELSE {"ok", "assign_err"}

\* ConsumeMessages going into its loop although Assign failed.
ConsumeAssign_EntersOnError(cons, asg, c, ctx, out, len) ==
    LET call == [IdleConsume EXCEPT !.pc = "done", !.ctx = ctx,
                                    !.nilAtEntry = ~cons.ptr]
    IN  IF ~cons.ptr
        THEN [call |-> [call EXCEPT !.ret = ConsumerNotInitialized],
              asg |-> asg, crash |-> FALSE]
        ELSE IF out = "use_after_close"
        THEN [call |-> [call EXCEPT !.pc = "dead", !.assignCalled = TRUE],
              asg |-> asg, crash |-> TRUE]
        ELSE IF out /= "ok"
        THEN [call |-> [call EXCEPT !.pc = "check", !.assignCalled = TRUE,
                          !.startLen = len,
                          !.lenAtCancel = IF ctx = "cancelled" THEN len ELSE -1],
              asg |-> asg, crash |-> FALSE]
        ELSE [call |-> [call EXCEPT !.pc = "check", !.assignCalled = TRUE,
                          !.entered = TRUE, !.startLen = len,
                          !.lenAtCancel = IF ctx = "cancelled" THEN len ELSE -1],
              asg |-> [on |-> TRUE, owner |-> c, pos |-> -1],
              crash |-> FALSE]

\* ConsumeMessages assigning the partition at its first offset.
ConsumeAssign_FromBeginning(cons, asg, c, ctx, out, len) ==
    LET call == [IdleConsume EXCEPT !.pc = "done", !.ctx = ctx,
                                    !.nilAtEntry = ~cons.ptr]
    IN  IF ~cons.ptr
        THEN [call |-> [call EXCEPT !.ret = ConsumerNotInitialized],
              asg |-> asg, crash |-> FALSE]
        ELSE IF out = "use_after_close"
        THEN [call |-> [call EXCEPT !.pc = "dead", !.assignCalled = TRUE],
              asg |-> asg, crash |-> TRUE]
        ELSE IF out /= "ok"
        THEN [call |-> [call EXCEPT !.assignCalled = TRUE,
                          !.ret = Wrapf("failed to assign consumer to topic",
                                        Leaf(out))],
              asg |-> asg, crash |-> FALSE]
        ELSE [call |-> [call EXCEPT !.pc = "check", !.assignCalled = TRUE,
                          !.entered = TRUE, !.startLen = len,
                          !.lenAtCancel = IF ctx = "cancelled" THEN len ELSE -1],
              asg |-> [on |-> TRUE, owner |-> c, pos |-> 0],
              crash |-> FALSE]

\* ConsumeMessages up to its loop: the nil check on consumer,
\* consumer.Assign of partition 0 at OffsetEnd, the deferred Unassign.  The
\* position of OffsetEnd is resolved by the client library later (pos = -1
\* until then).  len is the length of the partition at the call.  Gives the
\* caller's call record, the assignment of the shared consumer afterwards and
\* whether the process died.
ConsumeAssign(cons, asg, c, ctx, out, len) ==
    LET call == [IdleConsume EXCEPT !.pc = "done", !.ctx = ctx,
                                    !.nilAtEntry = ~cons.ptr]
    IN  IF ~cons.ptr
        THEN [call |-> [call EXCEPT !.ret = ConsumerNotInitialized],
              asg |-> asg, crash |-> FALSE]
        ELSE IF out = "use_after_close"
        THEN [call |-> [call EXCEPT !.pc = "dead", !.assignCalled = TRUE],
              asg |-> asg, crash |-> TRUE]
        ELSE IF out /= "ok"
        THEN [call |-> [call EXCEPT !.assignCalled = TRUE,
                          !.ret = Wrapf("failed to assign consumer to topic",
                                        Leaf(out))],
              asg |-> asg, crash |-> FALSE]
        ELSE [call |-> [call EXCEPT !.pc = "check", !.assignCalled = TRUE,
                          !.entered = TRUE, !.startLen = len,
                          !.lenAtCancel = IF ctx = "cancelled" THEN len ELSE -1],
              asg |-> [on |-> TRUE, owner |-> c, pos |-> -1],
              crash |-> FALSE]

\* Goroutine c calls ConsumeMessages(ctx, topic, handler) with a context that
\* is live or already cancelled.
ConsumeEnter(c) ==
    /\ mainpc = "lib"
    /\ ~crashed
    /\ con[c].pc = "idle"
    /\ \E ctx \in {"live", "cancelled"}, out \in AssignOutcomes(consumer) :
          LET r == ConsumeAssign(consumer, assignment, c, ctx, out, plog)
          IN  /\ con' = [con EXCEPT ![c] = r.call]
              /\ assignment' = r.asg
              /\ crashed' = r.crash
    /\ UNCHANGED <<appConfig, configOnce, mysql_db, postgres_db, redisx_client,
                   es_client, producer, consumer, lastCall, prevOp, calls, mainpc,
                   pub, chans, inflight, nPublish, plog, cfgVars>>

\* The loop without the ctx.Done() case.
LoopSelect_NoCtxCase(call) == "default"

\* The loop's select: the ctx.Done() case when the context is cancelled, the
\* default case otherwise.
LoopSelect(call) == IF call.ctx = "cancelled" THEN "ctx" ELSE "default"

\* What the deferred consumer.Unassign can answer.
UnassignOutcomes(cons) ==
    IF cons.conn = "closed" THEN {"closed_err", "use_after_close"}
    ELSE {"ok", "unassign_err"}

\* The ctx.Done() case: return ctx.Err(); the deferred Unassign runs and its
\* result is dropped.
ConsumeReturn(call, asg, out) ==
    LET after == IF out = "ok" THEN NoAssignment ELSE asg
    IN  [call |-> [call EXCEPT !.pc = IF out = "use_after_close"
                                      THEN "dead" ELSE "done",
                               !.unassigns = @ + 1,
                               !.unassign = out,
                               !.leftAssigned = after.on,
                               !.ret = Canceled],
         asg |-> after,
         crash |-> (out = "use_after_close")]

\* One pass of the loop through its select: on a cancelled context the call
\* returns, otherwise it goes on to consumer.Poll.
ConsumeCheck(c) ==
    /\ mainpc = "lib"
    /\ ~crashed
    /\ con[c].pc = "check"
    /\ IF LoopSelect(con[c]) = "ctx"
       THEN \E out \in UnassignOutcomes(consumer) :
               LET r == ConsumeReturn(con[c], assignment, out)
               IN  /\ con' = [con EXCEPT ![c] = r.call]
                   /\ assignment' = r.asg
                   /\ crashed' = r.crash
       ELSE /\ con' = [con EXCEPT ![c].pc = "poll"]
            /\ UNCHANGED <<assignment, crashed>>
    /\ UNCHANGED <<appConfig, configOnce, mysql_db, postgres_db, redisx_client,
                   es_client, producer, consumer, lastCall, prevOp, calls, mainpc,
                   pub, chans, inflight, nPublish, plog, cfgVars>>

\* What consumer.Poll(100) can give: nothing within the timeout, a broker
\* error event, or the next message of the assigned partition once the
\* position is resolved and a message is there.
PollEvents(cons, asg, len) ==
    IF cons.conn = "closed" THEN {"nil", "use_after_close"}
    ELSE {"nil", "error"}
            \cup (IF asg.on /\ asg.pos >= 0 /\ asg.pos < len
                  THEN {"message"} ELSE {})

\* What a call remembers of the errors its loop has met: the kind of the
\* first one (the handler's or a broker error event), and whether the handler
\* has been invoked for a message since.
ErrsAfter(errs, ev, h) ==
    IF ev = "message"
    THEN CASE errs = "none" -> IF h = "err" THEN "handler" ELSE "none"
           [] errs = "handler" -> "handler_then_next"
           [] errs = "broker" -> "broker_then_next"
           [] OTHER -> errs
    ELSE IF ev = "error" /\ errs = "none" THEN "broker"
    ELSE errs

\* The default case with a handler error ending the loop.
ConsumeDispatch_StopsOnHandlerError(call, ev, offset, h) ==
    LET polled == [call EXCEPT !.pc = "check",
                     !.errs = ErrsAfter(@, ev, h),
                     !.pollsAfterCancel =
                         IF call.ctx = "cancelled" THEN @ + 1 ELSE @]
    IN  IF ev = "use_after_close" THEN [polled EXCEPT !.pc = "dead"]
        ELSE IF ev = "message"
        THEN [polled EXCEPT
                !.handled = Append(@, offset),
                !.pc = IF h = "err" THEN "done" ELSE "check",
                !.ret = IF h = "err" THEN Leaf("handler") ELSE Nil]
        ELSE polled

\* The default case: e := consumer.Poll(100); nil continues, a message goes
\* to the handler (whose error is logged), an error event is logged, the
\* loop goes round.  offset is the offset of the message polled, h the
\* handler's answer.
ConsumeDispatch(call, ev, offset, h) ==
    LET polled == [call EXCEPT !.pc = "check",
                     !.errs = ErrsAfter(@, ev, h),
                     !.pollsAfterCancel =
                         IF call.ctx = "cancelled" THEN @ + 1 ELSE @]
    IN  IF ev = "use_after_close" THEN [polled EXCEPT !.pc = "dead"]
        ELSE IF ev = "message"
        THEN [polled EXCEPT !.handled = Append(@, offset)]
        ELSE polled

\* Goroutine c is in the default case of the loop.
ConsumePoll(c) ==
    /\ mainpc = "lib"
    /\ ~crashed
    /\ con[c].pc = "poll"
    /\ \E ev \in PollEvents(consumer, assignment, plog) :
       \E h \in IF ev = "message" THEN {"ok", "err"} ELSE {"ok"} :
          /\ con' = [con EXCEPT
                ![c] = ConsumeDispatch(con[c], ev, assignment.pos, h)]
          /\ assignment' = IF ev = "message"
                           THEN [assignment EXCEPT !.pos = @ + 1]
                           ELSE assignment
          /\ crashed' = (ev = "use_after_close")
    /\ UNCHANGED <<appConfig, configOnce, mysql_db, postgres_db, redisx_client,
                   es_client, producer, consumer, lastCall, prevOp, calls, mainpc,
                   pub, chans, inflight, nPublish, plog, cfgVars>>

\* The caller's context is cancelled while ConsumeMessages is in its loop.
CancelConsume(c) ==
    /\ mainpc = "lib"
    /\ ~crashed
    /\ con[c].pc \in {"check", "poll"}
    /\ con[c].ctx = "live"
    /\ con' = [con EXCEPT ![c].ctx = "cancelled", ![c].lenAtCancel = plog]
    /\ UNCHANGED <<appConfig, configOnce, mysql_db, postgres_db, redisx_client,
                   es_client, producer, consumer, lastCall, prevOp, calls, mainpc,
                   msgVars, assignment, plog, cfgVars>>

\* Some producer's message is written to partition 0 of the topic.
BrokerAppend ==
    /\ mainpc = "lib"
    /\ ~crashed
    /\ plog < MaxMessages
    /\ plog' = plog + 1
    /\ UNCHANGED <<appConfig, configOnce, mysql_db, postgres_db, redisx_client,
                   es_client, producer, consumer, lastCall, prevOp, calls, mainpc,
                   msgVars, con, assignment, cfgVars>>

\* The client library resolves OffsetEnd of the assignment to the end of the
\* partition as it is at that moment.
ResolveOffset ==
    /\ mainpc = "lib"
    /\ ~crashed
    /\ assignment.on
    /\ assignment.pos = -1
    /\ assignment' = [assignment EXCEPT !.pos = plog]
    /\ UNCHANGED <<appConfig, configOnce, mysql_db, postgres_db, redisx_client,
                   es_client, producer, consumer, lastCall, prevOp, calls, mainpc,
                   msgVars, con, plog, cfgVars>>

\* The handles of a process in which no Init has run.
FreshMachine ==
    [mysql_db |-> NilHandle, postgres_db |-> NilHandle,
     redisx_client |-> NilHandle, es_client |-> NilHandle,
     producer |-> NilHandle, consumer |-> NilHandle, log |-> <<>>]

\* The messaging client with its handles staying as they are while the calls
\* run: kafka.Init has not been called, or it has
\* been called once with any of its outcomes, or kafka.Close has been called
\* after it.
ConInit ==
    /\ appConfig = [s \in Subsystems |-> s = "kafka"]
    /\ configOnce = TRUE
    /\ \E called \in BOOLEAN, closed \in BOOLEAN, out \in KafkaOutcomes :
          LET inited == IF called THEN kafka_Init(FreshMachine, out).st
                        ELSE FreshMachine
              st == IF called /\ closed THEN kafka_Close(inited, FALSE).st
                    ELSE inited
          IN  /\ mysql_db = st.mysql_db
              /\ postgres_db = st.postgres_db
              /\ redisx_client = st.redisx_client
              /\ es_client = st.es_client
              /\ producer = st.producer
              /\ consumer = st.consumer
              /\ calls = IF called THEN (IF closed THEN 2 ELSE 1) ELSE 0
    /\ lastCall = NoCall
    /\ prevOp = "none"
    /\ mainpc = "lib"
    /\ InitMessaging
    /\ InitConsuming
    /\ nSet = 1
    /\ lastSet = appConfig
    /\ firstSet = appConfig

ConNext ==
    \/ \E c \in Consumers : ConsumeEnter(c)
    \/ \E c \in Consumers : ConsumeCheck(c)
    \/ \E c \in Consumers : ConsumePoll(c)
    \/ \E c \in Consumers : CancelConsume(c)
    \/ BrokerAppend
    \/ ResolveOffset

ConSpec == ConInit /\ [][ConNext]_vars

\* The publishing side of the messaging client on its own, the handles
\* staying as they are while the calls run.
PubNext ==
    \/ \E p \in Publishers : PublishEnter(p)
    \/ \E p \in Publishers : PublishSelect(p)
    \/ \E p \in Publishers : CancelCtx(p)
    \/ \E env \in inflight : Deliver(env)

PubSpec == ConInit /\ [][PubNext]_vars

\* The messaging client without a consumer: kafka.Init has not been called
\* or has failed, so consumer is nil, and producer is nil unless the failure
\* was the consumer's.
NoConsumerInit ==
    /\ appConfig = [s \in Subsystems |-> s = "kafka"]
    /\ configOnce = TRUE
    /\ \E out \in {"not_called", "producer_err", "consumer_err"} :
          LET st == IF out = "not_called" THEN FreshMachine
                    ELSE kafka_Init(FreshMachine, out).st
          IN  /\ mysql_db = st.mysql_db
              /\ postgres_db = st.postgres_db
              /\ redisx_client = st.redisx_client
              /\ es_client = st.es_client
              /\ producer = st.producer
              /\ consumer = st.consumer
              /\ calls = IF out = "not_called" THEN 0 ELSE 1
    /\ lastCall = NoCall
    /\ prevOp = "none"
    /\ mainpc = "lib"
    /\ InitMessaging
    /\ InitConsuming
    /\ nSet = 1
    /\ lastSet = appConfig
    /\ firstSet = appConfig

NoConsumerNext ==
    \/ \E p \in Publishers : PublishEnter(p)
    \/ \E p \in Publishers : PublishSelect(p)
    \/ \E p \in Publishers : CancelCtx(p)
    \/ \E env \in inflight : Deliver(env)
    \/ \E c \in Consumers : ConsumeEnter(c)

NoConsumerSpec == NoConsumerInit /\ [][NoConsumerNext]_vars

\* ========================================================================
\* Properties of the bootstrap API (checked under Spec)
\* ========================================================================
\* The order in which Start is specified to visit the subsystems.
Rank(sub) ==
    CASE sub = "mysql" -> 1
      [] sub = "postgres" -> 2
      [] sub = "redis" -> 3
      [] sub = "elasticsearch" -> 4
      [] sub = "kafka" -> 5

\* The package-level handles of a subsystem, in the current state.
HandlesOf(sub) ==
    CASE sub = "mysql" -> {mysql_db}
      [] sub = "postgres" -> {postgres_db}
      [] sub = "redis" -> {redisx_client}
      [] sub = "elasticsearch" -> {es_client}
      [] sub = "kafka" -> {producer, consumer}

AllHandles == {mysql_db, postgres_db, redisx_client, es_client, producer, consumer}

\* The subsystem is in the "started" set: the Init that made its handles
\* returned success.
Started(sub) == \A h \in HandlesOf(sub) : h.initOk

Log == lastCall.log

\* Positions of the log where package function fn was called.
CallsOf(fn) == {i \in 1..Len(Log) : Log[i].fn = fn}

\* The position of subsystem sub's call of fn in the log (0 if there is none).
PosOf(sub, fn) ==
    IF \E i \in CallsOf(fn) : Log[i].sub = sub
    THEN CHOOSE i \in CallsOf(fn) : Log[i].sub = sub
    ELSE 0

AllDisabled == \A s \in Subsystems : ~appConfig[s]

\* C1: Start visits MySQL, PostgreSQL, Redis, Elasticsearch, Kafka in that
\* order; once the k-th enabled subsystem's Init fails no later Init is
\* invoked, Start returns an error, nothing is closed, and the subsystems
\* initialised before k stay initialised (handle set, connection open).
C1_StartFailFast ==
    lastCall.op = "Start" =>
        /\ \A i \in 1..Len(Log) : Log[i].fn = "Init"
        /\ \A i, j \in 1..Len(Log) : i < j => Rank(Log[i].sub) < Rank(Log[j].sub)
        /\ \A i \in 1..Len(Log) : i < Len(Log) => Log[i].err = Nil
        /\ \A i \in 1..Len(Log) : Log[i].err /= Nil => lastCall.err /= Nil
        /\ \A i \in 1..Len(Log) :
              Log[i].err = Nil =>
                  \A h \in HandlesOf(Log[i].sub) :
                      h.ptr /\ h.conn = "open" /\ h.closes = 0 /\ h.initOk
        /\ \A s \in Subsystems :
              (appConfig[s] /\ \A i \in 1..Len(Log) :
                                  Log[i].err = Nil \/ Rank(s) <= Rank(Log[i].sub))
                  => PosOf(s, "Init") /= 0

\* C1 witness: the third Init of a Start failed after two succeeded.
C1_Witness ==
    /\ lastCall.op = "Start"
    /\ Len(Log) = 3
    /\ Log[1].err = Nil /\ Log[2].err = Nil /\ Log[3].err /= Nil
    /\ lastCall.err /= Nil

\* C2 (as claimed): the second of two successive Shutdown calls invokes no
\* close on any underlying handle and returns success.
C2_SecondShutdownClosesNothing ==
    (lastCall.op = "Shutdown" /\ prevOp = "Shutdown") =>
        /\ CallsOf("HandleClose") = {}
        /\ lastCall.err = Nil

C4_AggregatedError ==
    lastCall.op = "Shutdown" =>
        /\ lastCall.err = Nil <=> \A i \in CallsOf("Close") : Log[i].err = Nil
        /\ \A i \in CallsOf("Close") :
              Log[i].err /= Nil =>
                  \E k \in 1..Len(lastCall.err) : lastCall.err[k] = Log[i].err[1]

\* C5: whatever closes fail, one Shutdown call attempts the close of every
\* subsystem exactly once, the subsystems after a failing one included, and
\* returns.
C5_EveryCloseAttemptedOnce ==
    lastCall.op = "Shutdown" =>
        /\ \A s \in Subsystems :
              Cardinality({i \in CallsOf("Close") : Log[i].sub = s}) = 1
        /\ \A h \in AllHandles :
              (h.ptr /\ h.conn /= "none" /\ h /= es_client) => h.conn = "closed"
        /\ \A i, j \in CallsOf("HandleClose") :
              (Log[i].sub = Log[j].sub /\ Log[i].h = Log[j].h) => i = j

\* C5 witness: the first close failed and the last subsystem's handles were
\* closed all the same.
C5_Witness ==
    /\ lastCall.op = "Shutdown"
    /\ PosOf("mysql", "Close") /= 0
    /\ Log[PosOf("mysql", "Close")].err /= Nil
    /\ \E i \in CallsOf("HandleClose") : Log[i].sub = "kafka" /\ Log[i].h = "consumer"

\* C6 (as claimed): a handle exists iff its Init succeeded and its close has
\* not been called; close is applied to a handle at most once and only to a
\* handle whose Init succeeded.
C6_HandleInvariant ==
    \A h \in AllHandles :
        /\ h.ptr <=> (h.initOk /\ h.closes = 0)
        /\ h.closes <= 1
        /\ h.closes > 0 => h.initOk

\* C7: Start invokes Init only on enabled subsystems; with every subsystem
\* disabled Start invokes no Init and succeeds, and Shutdown closes no
\* connection and succeeds.
C7_DisabledNeverInitialised ==
    /\ lastCall.op = "Start" => \A i \in 1..Len(Log) : appConfig[Log[i].sub]
    /\ (AllDisabled /\ lastCall.op = "Start") => (Log = <<>> /\ lastCall.err = Nil)
    /\ (AllDisabled /\ lastCall.op = "Shutdown") =>
          /\ CallsOf("HandleClose") = {}
          /\ lastCall.err = Nil
          /\ \A h \in AllHandles : h = NilHandle

\* C7 witness: all disabled, Start then Shutdown.
C7_Witness ==
    /\ AllDisabled
    /\ lastCall.op = "Shutdown"
    /\ prevOp = "Start"
    /\ CallsOf("Close") /= {}

\* The message Start's error carries for a failure of subsystem sub.
InitFailedText(sub) ==
    CASE sub = "mysql" -> "failed to initialize MySQL"
      [] sub = "postgres" -> "failed to initialize PostgreSQL"
      [] sub = "redis" -> "failed to initialize Redis"
      [] sub = "elasticsearch" -> "failed to initialize Elasticsearch"
      [] sub = "kafka" -> "failed to initialize Kafka"

\* C9: when an Init fails, Start's error has a layer naming the subsystem
\* that failed and no layer naming another one, and the error that Init
\* returned is reachable from it by Unwrap; Start fails only if an Init did.
C9_StartErrorWrapsCause ==
    lastCall.op = "Start" =>
        /\ \A i \in 1..Len(Log) :
              Log[i].err /= Nil =>
                  /\ lastCall.err /= Nil
                  /\ Log[i].err \in Chain(lastCall.err)
                  /\ \E k \in 1..Len(lastCall.err) :
                        lastCall.err[k].text = InitFailedText(Log[i].sub)
                  /\ \A s \in Subsystems \ {Log[i].sub} :
                        \A k \in 1..Len(lastCall.err) :
                            lastCall.err[k].text /= InitFailedText(s)
        /\ lastCall.err /= Nil => \E i \in 1..Len(Log) : Log[i].err /= Nil

\* C9 witness: Start failed in the last subsystem, Kafka, on its consumer.
C9_Witness ==
    /\ lastCall.op = "Start"
    /\ Len(Log) = 5
    /\ Log[5].sub = "kafka"
    /\ Log[5].err /= Nil
    /\ Leaf("consumer_err") \in Chain(lastCall.err)

\* ========================================================================
\* Properties of main (checked under MainSpec)
\* ========================================================================
\* C8 (as claimed): when the process has exited, every subsystem whose Init
\* succeeded during Start has had its close invoked by a Shutdown.
C8_StartedAreClosedAtExit ==
    mainpc \in {"exited", "fatal"} =>
        \A s \in Subsystems :
            Started(s) => (lastCall.op = "Shutdown" /\ PosOf(s, "Close") /= 0)

\* ========================================================================
\* Properties of the messaging client (checked under MsgSpec)
\* ========================================================================
\* C10 (as claimed): a PublishMessage call entered with a context already
\* cancelled never invokes producer.Produce and, where a producer exists,
\* returns the cancellation error.
C10_CancelledNeverProduces ==
    \A p \in Publishers :
        pub[p].entryCancelled =>
            /\ ~pub[p].produced
            /\ (pub[p].pc = "done" /\ pub[p].ret /= ProducerNotInitialized)
                  => pub[p].ret = Canceled

\* ========================================================================
\* Properties of PublishMessage (checked under PubSpec)
\* ========================================================================
\* The calls of PublishMessage that returned from the delivery case of the
\* select.
DeliveredCalls ==
    {p \in Publishers : pub[p].pc = "done" /\ pub[p].branch = "delivery"}

C12_OwnChannelOwnEvent ==
    /\ \A p \in Publishers :
          pub[p].pc \in {"select", "done"} /\ pub[p].produced =>
              /\ pub[p].chan = pub[p].id
              /\ \A q \in Publishers \ {p} : pub[q].chan /= pub[p].chan
    /\ \A env \in inflight : env.chan = env.msg
    /\ \A i \in CallIds :
          /\ Len(chans[i].buf) <= 1
          /\ \A k \in 1..Len(chans[i].buf) : chans[i].buf[k].msg = i
    /\ \A p \in DeliveredCalls : pub[p].got.msg = pub[p].id

C12_Witness ==
    \E p, q \in DeliveredCalls :
        /\ p /= q
        /\ pub[p].id < pub[q].id
        /\ pub[p].got.msg = pub[p].id
        /\ pub[q].got.msg = pub[q].id

\* C13: a PublishMessage that waits in its select with its context cancelled
\* can return at once, and when no delivery event has arrived for it, it
\* returns the cancellation error from the ctx.Done() case.
C13_CancelledWaitReturns ==
    \A p \in Publishers :
        /\ (pub[p].pc = "select" /\ pub[p].ctx = "cancelled" /\ ~crashed)
              => ENABLED PublishSelect(p)
        /\ (pub[p].pc = "done" /\ pub[p].branch = "ctx")
              => pub[p].ret = Canceled /\ pub[p].got = NoEvent
        /\ (pub[p].pc = "done" /\ pub[p].branch /= "none"
              /\ \E env \in inflight : env.msg = pub[p].id)
              => pub[p].ret = Canceled /\ pub[p].branch = "ctx"

C13_Witness ==
    \E p \in Publishers :
        /\ pub[p].pc = "done"
        /\ ~pub[p].entryCancelled
        /\ pub[p].branch = "ctx"
        /\ pub[p].ret = Canceled
        /\ \E env \in inflight : env.msg = pub[p].id

\* ========================================================================
\* Properties of calls made without a handle (checked under NoConsumerSpec)
\* ========================================================================
\* C14: PublishMessage entered while producer is nil returns "Kafka producer
\* not initialized" without making a channel or an envelope and without
\* calling Produce; ConsumeMessages entered while consumer is nil returns an
\* error without calling Assign, Poll, the handler or Unassign.
C14_NoHandleNoWork ==
    /\ \A p \in Publishers :
          pub[p].pc /= "idle" /\ pub[p].nilAtEntry =>
              /\ pub[p].pc = "done"
              /\ pub[p].ret = ProducerNotInitialized
              /\ ~pub[p].produced
              /\ pub[p].chan = 0
              /\ chans[pub[p].id] = NoChan
              /\ \A env \in inflight : env.msg /= pub[p].id
    /\ \A c \in Consumers :
          con[c].pc /= "idle" /\ con[c].nilAtEntry =>
              /\ con[c].pc = "done"
              /\ con[c].ret = ConsumerNotInitialized
              /\ ~con[c].assignCalled
              /\ ~con[c].entered
              /\ con[c].handled = <<>>
              /\ con[c].unassigns = 0
              /\ assignment = NoAssignment

C14_Witness ==
    /\ \E p \in Publishers : pub[p].pc = "done" /\ pub[p].nilAtEntry
    /\ \E c \in Consumers : con[c].pc = "done" /\ con[c].nilAtEntry

\* ========================================================================
\* Properties of ConsumeMessages (checked under ConSpec)
\* ========================================================================
\* The calls of ConsumeMessages that went into the loop.
Looping == {c \in Consumers : con[c].entered}

\* The offsets a call has passed to its handler, in the order of the calls.
Offsets(c) == con[c].handled

\* C15: once the loop is entered, a handler error or a broker error event
\* does not end it: the call can poll again, the handler is invoked for the
\* messages that follow, and the call returns only with the cancellation
\* error of a cancelled context.
C15_LoopSurvivesErrors ==
    \A c \in Looping :
        /\ con[c].pc \in {"check", "poll", "done", "dead"}
        /\ con[c].pc = "done" =>
              con[c].ctx = "cancelled" /\ con[c].ret = Canceled
        /\ (con[c].pc = "poll" /\ ~crashed) => ENABLED ConsumePoll(c)
        /\ (con[c].pc = "check" /\ ~crashed) => ENABLED ConsumeCheck(c)

C15_Witness ==
    \E c, d \in Looping :
        /\ con[c].pc \in {"check", "poll"}
        /\ con[c].ctx = "live"
        /\ con[c].errs = "handler_then_next"
        /\ Len(con[c].handled) >= 2
        /\ con[d].pc \in {"check", "poll"}
        /\ con[d].ctx = "live"
        /\ con[d].errs = "broker"

\* C16: after the context is cancelled the loop makes at most one more Poll
\* (and so at most one more handler call), then returns the cancellation
\* error; Unassign is invoked exactly once on that exit, its result is
\* dropped, and when it succeeds the consumer is left without assignment.
C16_CancelExits ==
    \A c \in Looping :
        /\ con[c].pollsAfterCancel <= 1
        /\ (con[c].pc = "check" /\ con[c].ctx = "cancelled" /\ ~crashed)
              => ENABLED ConsumeCheck(c)
        /\ con[c].pc \in {"check", "poll"} => con[c].unassigns = 0
        /\ con[c].pc = "done" =>
              /\ con[c].ret = Canceled
              /\ con[c].unassigns = 1
              /\ con[c].unassign = "ok" => ~con[c].leftAssigned

C16_Witness ==
    \E c \in Looping :
        /\ con[c].pc = "done"
        /\ con[c].lenAtCancel > con[c].startLen
        /\ con[c].pollsAfterCancel = 1
        /\ con[c].ret = Canceled
        /\ con[c].unassigns = 1
        /\ ~con[c].leftAssigned

\* C17: when consumer.Assign fails, ConsumeMessages returns "failed to
\* assign consumer to topic" wrapping the cause and the loop is never
\* entered: no Poll, no handler call, no Unassign.
C17_AssignFailureSkipsLoop ==
    \A c \in Consumers :
        /\ (con[c].assignCalled /\ ~con[c].entered /\ con[c].pc = "done") =>
              /\ Unwrap(con[c].ret) \in {Leaf("assign_err"), Leaf("closed_err")}
              /\ con[c].ret = Wrapf("failed to assign consumer to topic",
                                    Unwrap(con[c].ret))
        /\ ~con[c].entered =>
              /\ con[c].pc \in {"idle", "done", "dead"}
              /\ con[c].pollsAfterCancel = 0
              /\ con[c].handled = <<>>
              /\ con[c].unassigns = 0

C17_Witness ==
    \E c \in Consumers :
        /\ con[c].pc = "done"
        /\ con[c].assignCalled
        /\ ~con[c].entered
        /\ Unwrap(con[c].ret) = Leaf("assign_err")
        /\ plog > 0

\* C18 (as claimed): the handler is never given a message written before the
\* assignment, it is given messages in offset order, and every message
\* written to the partition after the assignment while the loop ran with a
\* live context has been given to it by the time the call returns.
C18_EveryNewMessageHandled ==
    \A c \in Looping :
        /\ \A k \in 1..Len(Offsets(c)) : Offsets(c)[k] >= con[c].startLen
        /\ \A k \in 1..(Len(Offsets(c)) - 1) : Offsets(c)[k] < Offsets(c)[k + 1]
        /\ con[c].pc = "done" =>
              \A o \in con[c].startLen..(con[c].lenAtCancel - 1) :
                  \E k \in 1..Len(Offsets(c)) : Offsets(c)[k] = o

\* C18 (amended): the handler is never given a message written before the
\* assignment, no message is given to a handler twice, and each call is
\* given its messages in increasing offset order; messages written after the
\* assignment can be missed.
C18_OnlyNewInOrder ==
    /\ \A c \in Looping :
          /\ \A k \in 1..Len(Offsets(c)) :
                Offsets(c)[k] >= con[c].startLen /\ Offsets(c)[k] < plog
          /\ \A k \in 1..(Len(Offsets(c)) - 1) :
                Offsets(c)[k] < Offsets(c)[k + 1]
    /\ \A c, d \in Looping :
          c /= d => \A k \in 1..Len(Offsets(c)), j \in 1..Len(Offsets(d)) :
                       Offsets(c)[k] /= Offsets(d)[j]

C18_Witness ==
    \E c, d \in Looping :
        /\ c /= d
        /\ con[c].startLen >= 1
        /\ Len(con[c].handled) >= 1
        /\ Len(con[d].handled) >= 1

\* ========================================================================
\* Properties of the configuration snapshot (checked under CfgSpec)
\* ========================================================================
\* C20: once SetConfig has been called, GetConfig returns the argument of
\* that first call in every later state, whatever further SetConfig calls
\* are made, and a Start initialises subsystems only as that snapshot says.
C20_SnapshotSetOnce ==
    /\ (nSet = 0 /\ ~crashed) => ~configOnce
    /\ nSet >= 1 =>
          /\ configOnce
          /\ GetConfig = firstSet
          /\ lastCall.op = "Start" =>
                /\ \A i \in 1..Len(Log) : firstSet[Log[i].sub]
                /\ lastCall.err = Nil =>
                      \A sub \in Subsystems :
                          firstSet[sub] => PosOf(sub, "Init") /= 0

C20_Witness ==
    /\ nSet >= 2
    /\ lastSet /= firstSet
    /\ lastSet["redis"]
    /\ firstSet["kafka"]
    /\ GetConfig = firstSet
    /\ lastCall.op = "Start"
    /\ lastCall.err = Nil
    /\ prevOp = "Start"

\* ========================================================================
\* Properties of main (checked under MainSpec)
\* ========================================================================
\* C21: a Start failure aborts the process at once: main waits for the
\* signal only while the latest call is a Start that returned nil, a Start
\* that returned an error leaves main exited by Fatalf, the wait is left
\* only by the signal, and Shutdown is called only from the state the signal
\* leads to, the Start before it having returned nil.
C21_StartFailureAborts ==
    /\ [](/\ mainpc \in {"wait", "shutdown"} =>
                lastCall.op = "Start" /\ lastCall.err = Nil
          /\ (lastCall.op = "Start" /\ lastCall.err /= Nil) => mainpc = "fatal"
          /\ lastCall.op = "Shutdown" =>
                prevOp = "Start" /\ mainpc \in {"exited", "fatal"})
    /\ [][/\ (mainpc' = "wait" /\ mainpc /= "wait") =>
                mainpc = "start" /\ lastCall'.err = Nil
          /\ (mainpc' = "shutdown" /\ mainpc /= "shutdown") => mainpc = "wait"
          /\ (lastCall'.op = "Shutdown" /\ lastCall.op /= "Shutdown") =>
                /\ mainpc = "shutdown"
                /\ lastCall.op = "Start"
                /\ lastCall.err = Nil]_vars

C21_Witness ==
    /\ mainpc = "fatal"
    /\ lastCall.op = "Start"
    /\ lastCall.err /= Nil
    /\ \E s \in Subsystems : Started(s)

\* ========================================================================
\* Further properties of PublishMessage (checked under PubSpec)
\* ========================================================================
\* The calls of PublishMessage whose producer.Produce returned an error.
RejectedCalls ==
    {p \in Publishers : pub[p].submit \in {"queue_full", "closed_err"}}

\* C22: when producer.Produce rejects the envelope, PublishMessage has
\* returned "failed to produce message to topic" wrapping the cause in the
\* same step: it is never found waiting in its select, it takes no delivery
\* event and no ctx case, and no envelope of it is queued.
C22_RejectedSubmitReturnsAtOnce ==
    \A p \in RejectedCalls :
        /\ pub[p].pc = "done"
        /\ pub[p].ret = Wrapf("failed to produce message to topic",
                              Leaf(pub[p].submit))
        /\ Unwrap(pub[p].ret) = Leaf(pub[p].submit)
        /\ pub[p].branch = "none"
        /\ pub[p].got = NoEvent
        /\ \A env \in inflight : env.msg /= pub[p].id

C22_Witness ==
    \E p \in RejectedCalls :
        /\ pub[p].submit = "queue_full"
        /\ pub[p].ctx = "live"
        /\ pub[p].pc = "done"
        /\ chans[pub[p].id].buf = <<>>

\* C23 (as claimed): no delivery event is ever sent on a deliveryChan that
\* has been closed, whatever the order of cancellation, return and delivery.
C23_NoSendOnClosedChannel ==
    \A i \in CallIds : chans[i].state /= "sent_on_closed"

\* ========================================================================
\* Further properties of ConsumeMessages (checked under ConSpec)
\* ========================================================================
\* C24 (as claimed): while a call of ConsumeMessages is in its loop, the
\* shared consumer holds an assignment of the topic partition: no other
\* call's Assign or exit Unassign takes it away.
C24_LoopKeepsAssignment ==
    \A c \in Looping :
        (con[c].pc \in {"check", "poll"} /\ ~crashed) => assignment.on

\* ========================================================================
\* Further properties of the bootstrap API (checked under Spec)
\* ========================================================================
\* C25 (as claimed): a failed Init leaves no handle behind: after a Start in
\* which a subsystem's Init returned an error, every package-level handle of
\* that subsystem is nil.
C25_FailedInitLeavesNoHandle ==
    lastCall.op = "Start" =>
        \A i \in CallsOf("Init") :
            Log[i].err /= Nil => \A h \in HandlesOf(Log[i].sub) : ~h.ptr

\* ========================================================================
\* The messaging client after kafka.Close (checked under PubSpec)
\* ========================================================================
\* C26 (as claimed): once kafka.Close has closed the producer, a call of
\* PublishMessage returns ProducerNotInitialized without calling Produce on
\* the closed producer.
C26_PublishAfterCloseNotInitialized ==
    producer.closes > 0 =>
        \A p \in Publishers :
            pub[p].pc /= "idle" =>
                /\ pub[p].ret = ProducerNotInitialized
                /\ ~pub[p].produced

=============================================================================
